---- MODULE Spec2Model ----
(***************************************************************************)
(* State-machine model of the <reactive-table> web component               *)
(* (src/src/index.js): the watched data/schema properties, the update      *)
(* cycle of the hosting LitElement, the render plan, the value formatter   *)
(* and the expander click handler.                                         *)
(***************************************************************************)
EXTENDS Integers, Sequences, FiniteSets, TLC

(***************************************************************************)
(* Bound of the model.                                                     *)
(***************************************************************************)
\* external calls (assignments and mutations) made in one behaviour
MaxCalls == 3

(***************************************************************************)
(* JavaScript values: a type tag and a payload.                            *)
(***************************************************************************)
JsVal(t, s) == [t |-> t, s |-> s]
Undefined == JsVal("undefined", "")
Null == JsVal("null", "")
Str(s) == JsVal("string", s)
Num(s) == JsVal("number", s)
Bool(s) == JsVal("boolean", s)

\* the values the ! operator maps to true
Falsy == {Undefined, Null, Num("0"), Num("NaN"), Str(""), Bool("false")}

Truthy(v) == v \notin Falsy

\* row[header.key]: a key the row does not have reads as undefined
Field(row, key) == IF key \in DOMAIN row THEN row[key] ELSE Undefined

\* a ?? b
Coalesce(a, b) == IF a \in {Undefined, Null} THEN b ELSE a

\* faulty variant of _getValue: the guard tests for a missing value only
GetValue_NoFalsyGuard(row, header, fmt) ==
    LET v == Field(row, header.key) IN
    IF v \in {Undefined, Null} THEN Coalesce(header.default, Str(""))
    ELSE IF header.type = "date" THEN
        JsVal("date", v.s \o "@" \o (IF Truthy(fmt) THEN fmt.s ELSE "ISO8601"))
    ELSE IF header.type = "html" THEN JsVal("static", v.s)
    ELSE IF header.type = "image" THEN JsVal("img", v.s)
    ELSE v

\* _getValue(row, header), with this.dateFormat as fmt
GetValue(row, header, fmt) ==
    LET v == Field(row, header.key) IN
    IF ~Truthy(v) THEN Coalesce(header.default, Str(""))
    ELSE IF header.type = "date" THEN
        JsVal("date", v.s \o "@" \o (IF Truthy(fmt) THEN fmt.s ELSE "ISO8601"))
    ELSE IF header.type = "html" THEN JsVal("static", v.s)
    ELSE IF header.type = "image" THEN JsVal("img", v.s)
    ELSE v

(***************************************************************************)
(* Sample rows and columns the environment feeds to the component.         *)
(***************************************************************************)
Html1 == Str("<b>1</b>")
Html2 == Str("<i>2</i>")
R1 == [a |-> Str("x"), h |-> Html1]
R2 == [a |-> Num("0"), h |-> Html2]
ColA == [key |-> "a", name |-> "A", type |-> "plain", default |-> Str("N/A")]
ColH == [key |-> "h", name |-> "H", type |-> "html", default |-> Undefined]
Columns == {ColA, ColH}

\* a top-level entry of data: a plain object, or an array of plain objects
Simple(rec) == [arr |-> FALSE, els |-> <<rec>>]
Grouped(recs) == [arr |-> TRUE, els |-> recs]

PushRows == {Simple(R1), Grouped(<<>>), Grouped(<<R1, R2>>)}
DataSamples == {<<>>, <<Simple(R1), Grouped(<<R1, R2>>)>>}
SchemaSamples == {<<ColH, ColA>>}

VARIABLES
    data,             \* this.data: the array behind the watchers
    schema,           \* this.schema: the array behind the watchers
    dateFormat,       \* this.dateFormat
    dataWraps,        \* number of onChange proxies stacked on this.data
    schemaWraps,      \* number of onChange proxies stacked on this.schema
    changed,          \* the changedProperties map of the pending update
    isUpdatePending,  \* an update is scheduled and has not run yet
    hasHiddenRows,    \* this.hasHiddenRows
    rendered,         \* render() has run at least once
    tree,             \* what the last render() returned
    dom,              \* the <tr> rows of <tbody> in the live tree
    dataMutations,    \* mutations made through this.data so far
    dataChangeEvents, \* 'data-change' events dispatched so far
    calls,            \* external calls so far (bounded by MaxCalls)
    log,              \* what happened since the last external call began
    fmtRow, fmtCol, fmtOut  \* the formatter's arguments and result

vars == <<data, schema, dateFormat, dataWraps, schemaWraps, changed,
          isUpdatePending, hasHiddenRows, rendered, tree, dom,
          dataMutations, dataChangeEvents, calls, log, fmtRow, fmtCol, fmtOut>>

fmtVars == <<fmtRow, fmtCol, fmtOut>>

(***************************************************************************)
(* The render plan: render(), _getHeaders(), _getRows().                   *)
(***************************************************************************)
\* a <td>: its class list, the sub-row element and the column it belongs to
\* (column 0 is the leading cell), the template it was cloned from and its
\* content
Td(cls, el, col, tpl, content) ==
    [cls |-> cls, el |-> el, col |-> col, tpl |-> tpl, content |-> content]

\* html`...${unsafeStatic(x)}...`: a static value becomes part of the
\* template's strings, so each distinct markup is a template of its own
TemplateKey(content) == IF content.t = "static" THEN content.s ELSE ""

\* faulty variant: only the first row is inspected
HasHiddenRowsOf_FirstOnly(d) == Len(d) > 0 /\ d[1].arr

\* this.data.some((row) => Array.isArray(row))
HasHiddenRowsOf(d) == \E i \in 1..Len(d) : d[i].arr

\* the --gridtemplate custom property: an optional 1rem column and
\* repeat(n, 1fr)
GridTemplate(s, hhr) == [lead |-> hhr, repeat |-> Len(s)]

GridColumns(grid) == grid.repeat + (IF grid.lead THEN 1 ELSE 0)

\* faulty variant: no placeholder cell
GetHeaders_NoPlaceholder(s, hhr) ==
    [i \in 1..Len(s) |-> [placeholder |-> FALSE, text |-> s[i].name]]

\* _getHeaders(): the <th> cells of the header row
GetHeaders(s, hhr) ==
    (IF hhr THEN <<[placeholder |-> TRUE, text |-> ""]>> ELSE <<>>)
    \o [i \in 1..Len(s) |-> [placeholder |-> FALSE, text |-> s[i].name]]

\* faulty variant: every leading cell is an expander
GroupCells_AllExpanders(els, s, fmt) ==
    LET n == Len(s) + 1 IN
    [p \in 1..(Len(els) * n) |->
        LET el == (p - 1) \div n
            col == (p - 1) % n
            content == IF col = 0 THEN Str("") ELSE GetValue(els[el + 1], s[col], fmt)
        IN  Td(IF col = 0 THEN {"expander"}
               ELSE IF el # 0 THEN {"subrow", "hidden"} ELSE {},
               el, col, TemplateKey(content), content)]

\* the cells of a grouped row's <tr>: per element a leading cell, then one
\* cell per schema column
GroupCells(els, s, fmt) ==
    LET n == Len(s) + 1 IN
    [p \in 1..(Len(els) * n) |->
        LET el == (p - 1) \div n
            col == (p - 1) % n
            content == IF col = 0 THEN Str("") ELSE GetValue(els[el + 1], s[col], fmt)
        IN  Td(IF el # 0 THEN {"subrow", "hidden"}
               ELSE IF col = 0 THEN {"expander"} ELSE {},
               el, col, TemplateKey(content), content)]

\* the cells of a simple row's <tr>: an empty cell when some other row has
\* sub-rows, then one cell per schema column
SimpleCells(rec, s, hhr, fmt) ==
    (IF hhr THEN <<Td({}, 0, 0, "", Str(""))>> ELSE <<>>)
    \o [c \in 1..Len(s) |->
          LET content == GetValue(rec, s[c], fmt)
          IN  Td({}, 0, c, TemplateKey(content), content)]

NoDataRow == [kind |-> "nodata", cells |-> <<Td({"nodata"}, 0, 0, "", Str("There is no data to show"))>>]

\* _getRows(): the <tr> rows of the body
GetRows(d, s, hhr, fmt) ==
    IF Len(d) = 0 THEN <<NoDataRow>>
    ELSE [i \in 1..Len(d) |->
            IF d[i].arr
            THEN [kind |-> "group", cells |-> GroupCells(d[i].els, s, fmt)]
            ELSE [kind |-> "simple", cells |-> SimpleCells(d[i].els[1], s, hhr, fmt)]]

\* faulty variant: sub-rows are counted
FooterCount_Flattened(d) ==
    LET RECURSIVE Sum(_)
        Sum(i) == IF i = 0 THEN 0 ELSE Len(d[i].els) + Sum(i - 1)
    IN  Sum(Len(d))

\* ${this.data.length} records
FooterCount(d) == Len(d)

\* render(): hasHiddenRows, the grid template and the table's template
Render(d, s, fmt) ==
    LET hhr == HasHiddenRowsOf(d) IN
    [hasHiddenRows |-> hhr,
     grid |-> GridTemplate(s, hhr),
     headers |-> GetHeaders(s, hhr),
     rows |-> GetRows(d, s, hhr, fmt),
     footer |-> FooterCount(d)]

\* before the first render: the stylesheet's --gridtemplate and no table
GridDefaultRepeat == 1
NoTree ==
    [hasHiddenRows |-> FALSE,
     grid |-> [lead |-> FALSE, repeat |-> GridDefaultRepeat],
     headers |-> <<>>, rows |-> <<>>, footer |-> 0]

(***************************************************************************)
(* How the rendering library applies a render to the live tree: a part     *)
(* whose template is the one it already shows is updated in place, and a   *)
(* binding whose value is the one last committed is not written again, so  *)
(* a class list changed by the click handler stays as it is.  A part       *)
(* whose template changed, or that is new, is created from the template.   *)
(***************************************************************************)
OldCells(old, c) ==
    {q \in 1..Len(old.cells) :
        old.cells[q].el = c.el /\ old.cells[q].col = c.col}

\* faulty variant: every class binding is written again on each render
CommitCell_Rewrite(old, c) == c

\* one <td> of a grouped row that stays a grouped row
CommitCell(old, c) ==
    LET olds == OldCells(old, c) IN
    IF olds # {} /\ (\A q \in olds : old.cells[q].tpl = c.tpl)
    THEN [c EXCEPT !.cls = old.cells[CHOOSE q \in olds : TRUE].cls]
    ELSE c

\* one <tr>
CommitRow(old, new) ==
    IF old.kind = new.kind /\ new.kind = "group"
    THEN [new EXCEPT !.cells = [p \in 1..Len(new.cells) |-> CommitCell(old, new.cells[p])]]
    ELSE new

\* the body
Commit(oldDom, rows) ==
    [i \in 1..Len(rows) |->
        IF i <= Len(oldDom) THEN CommitRow(oldDom[i], rows[i]) ELSE rows[i]]

(***************************************************************************)
(* The watchers, the update cycle and the click handler.                   *)
(***************************************************************************)
\* faulty variant: the update is requested before the event is dispatched
WatchCallback_RequestFirst(eventName) == <<"requestUpdate", eventName>>

\* the callback of _watchObject: dispatchEvent, then requestUpdate
WatchCallback(eventName) == <<eventName, "requestUpdate">>

\* a mutation made through a value behind n stacked watchers runs the
\* callback of each of them, innermost first
RECURSIVE Notify(_, _)
Notify(n, eventName) ==
    IF n = 0 THEN <<>> ELSE WatchCallback(eventName) \o Notify(n - 1, eventName)

\* the places in a log where an event was dispatched, and where an update
\* was requested
Events(l) == {i \in 1..Len(l) : l[i] \in {"data-change", "schema-change"}}

Requests(l) == {i \in 1..Len(l) : l[i] = "requestUpdate"}

\* willUpdate(changed): a changed, truthy property is wrapped in a watcher,
\* whether or not it already is one
WillUpdate(wraps, name, ch) == IF name \in ch THEN wraps + 1 ELSE wraps

Toggle(cls, c) == IF c \in cls THEN cls \ {c} ELSE cls \cup {c}

\* faulty variant: only the clicked cell is toggled
HandleToggleExpandClick_TargetOnly(row, p) ==
    [row EXCEPT !.cells = [q \in 1..Len(row.cells) |->
        IF q = p
        THEN [row.cells[q] EXCEPT !.cls = Toggle(Toggle(@, "hidden"), "expanded")]
        ELSE row.cells[q]]]

\* _handleToggleExpandClick(e), e.target being cell p of the <tr> row
HandleToggleExpandClick(row, p) ==
    [row EXCEPT !.cells = [q \in 1..Len(row.cells) |->
        LET c == row.cells[q]
            c1 == IF "subrow" \in c.cls THEN [c EXCEPT !.cls = Toggle(@, "hidden")] ELSE c
        IN  IF q = p THEN [c1 EXCEPT !.cls = Toggle(@, "expanded")] ELSE c1]]

\* the constructor has run and the element is in the document: both
\* properties hold a watched empty array, and the first update is scheduled
InitComponent ==
    /\ data = <<>>
    /\ schema = <<>>
    /\ dataWraps = 1
    /\ schemaWraps = 1
    /\ changed = {"data", "schema"}
    /\ isUpdatePending = TRUE
    /\ hasHiddenRows = FALSE
    /\ rendered = FALSE
    /\ tree = NoTree
    /\ dom = <<>>
    /\ dataMutations = 0
    /\ dataChangeEvents = 0
    /\ calls = 0
    /\ log = <<"requestUpdate">>

Init ==
    /\ InitComponent
    /\ dateFormat = Undefined
    /\ fmtRow = R1
    /\ fmtCol = ColA
    /\ fmtOut = JsVal("pending", "")

\* el.data = d, d an array the component has not seen
SetData(d) ==
    /\ calls < MaxCalls
    /\ data' = d
    /\ dataWraps' = 0
    /\ changed' = changed \cup {"data"}
    /\ isUpdatePending' = TRUE
    /\ log' = <<"requestUpdate">>
    /\ calls' = calls + 1
    /\ UNCHANGED <<schema, dateFormat, schemaWraps, hasHiddenRows, rendered,
                   tree, dom, dataMutations, dataChangeEvents, fmtVars>>

\* el.schema = s
SetSchema(s) ==
    /\ calls < MaxCalls
    /\ schema' = s
    /\ schemaWraps' = 0
    /\ changed' = changed \cup {"schema"}
    /\ isUpdatePending' = TRUE
    /\ log' = <<"requestUpdate">>
    /\ calls' = calls + 1
    /\ UNCHANGED <<data, dateFormat, dataWraps, hasHiddenRows, rendered,
                   tree, dom, dataMutations, dataChangeEvents, fmtVars>>

\* one in-place mutation of el.data that leaves it as d
MutateData(d) ==
    /\ calls < MaxCalls
    /\ data' = d
    /\ dataMutations' = dataMutations + 1
    /\ dataChangeEvents' = dataChangeEvents + Cardinality(Events(Notify(dataWraps, "data-change")))
    /\ isUpdatePending' = (isUpdatePending \/ Requests(Notify(dataWraps, "data-change")) # {})
    /\ log' = Notify(dataWraps, "data-change")
    /\ calls' = calls + 1
    /\ UNCHANGED <<schema, dateFormat, dataWraps, schemaWraps, changed,
                   hasHiddenRows, rendered, tree, dom, fmtVars>>

\* el.data.push(row)
PushRow ==
    \E row \in PushRows :
        MutateData(Append(data, row))

\* el.data.splice(i, 1)
SpliceRow ==
    \E i \in 1..Len(data) :
        MutateData([j \in 1..(Len(data) - 1) |-> IF j < i THEN data[j] ELSE data[j + 1]])

\* el.data[i].push(R2), el.data[i] a grouped row
PushSubRow ==
    \E i \in 1..Len(data) :
        /\ data[i].arr
        /\ MutateData([data EXCEPT ![i].els = Append(@, R2)])

\* el.data[i][j].h = v (el.data[i].h = v for a simple row), v not the value
\* the field has
SetField ==
    \E i \in 1..Len(data) : \E j \in 1..Len(data[i].els) :
        MutateData([data EXCEPT ![i].els[j].h = IF @ = Html1 THEN Html2 ELSE Html1])

\* one in-place mutation of el.schema that leaves it as s
MutateSchema(s) ==
    /\ calls < MaxCalls
    /\ schema' = s
    /\ isUpdatePending' = (isUpdatePending \/ Requests(Notify(schemaWraps, "schema-change")) # {})
    /\ log' = Notify(schemaWraps, "schema-change")
    /\ calls' = calls + 1
    /\ UNCHANGED <<data, dateFormat, dataWraps, schemaWraps, changed,
                   hasHiddenRows, rendered, tree, dom, dataMutations,
                   dataChangeEvents, fmtVars>>

\* el.schema.push(col)
PushColumn ==
    \E col \in Columns :
        /\ \A i \in 1..Len(schema) : schema[i] # col
        /\ MutateSchema(Append(schema, col))

\* el.schema.pop()
PopColumn ==
    /\ Len(schema) > 0
    /\ MutateSchema(SubSeq(schema, 1, Len(schema) - 1))

\* the scheduled update runs: willUpdate(changed), render(), and the result
\* is applied to the live tree
PerformUpdate ==
    /\ isUpdatePending
    /\ dataWraps' = WillUpdate(dataWraps, "data", changed)
    /\ schemaWraps' = WillUpdate(schemaWraps, "schema", changed)
    /\ tree' = Render(data, schema, dateFormat)
    /\ hasHiddenRows' = tree'.hasHiddenRows
    /\ dom' = Commit(dom, tree'.rows)
    /\ rendered' = TRUE
    /\ changed' = {}
    /\ isUpdatePending' = FALSE
    /\ log' = Append(log, "render")
    /\ UNCHANGED <<data, schema, dateFormat, dataMutations, dataChangeEvents,
                   calls, fmtVars>>

\* the user clicks the leading cell p of body row i; a cell that is not
\* displayed cannot be clicked, and a click is a task of its own, so no
\* update is pending when it is handled
Click(i, p) ==
    /\ ~isUpdatePending
    /\ dom[i].kind = "group"
    /\ dom[i].cells[p].col = 0
    /\ "hidden" \notin dom[i].cells[p].cls
    /\ dom' = [dom EXCEPT ![i] = HandleToggleExpandClick(dom[i], p)]
    /\ log' = <<>>
    /\ UNCHANGED <<data, schema, dateFormat, dataWraps, schemaWraps, changed,
                   isUpdatePending, hasHiddenRows, rendered, tree,
                   dataMutations, dataChangeEvents, calls, fmtVars>>

AssignData == \E d \in DataSamples : SetData(d)

AssignSchema == \E s \in SchemaSamples : SetSchema(s)

ClickLeadingCell == \E i \in 1..Len(dom) : \E p \in 1..Len(dom[i].cells) : Click(i, p)

Next ==
    \/ AssignData
    \/ AssignSchema
    \/ PushRow
    \/ SpliceRow
    \/ PushSubRow
    \/ SetField
    \/ PushColumn
    \/ PopColumn
    \/ PerformUpdate
    \/ ClickLeadingCell

Spec == Init /\ [][Next]_vars

\* the scheduled update is a microtask: once scheduled it runs
FairSpec == Spec /\ WF_vars(PerformUpdate)

(***************************************************************************)
(* The formatter on its own: the arguments are drawn from bounded sets     *)
(* and FormatCell applies _getValue to them.                               *)
(***************************************************************************)
FmtValues ==
    Falsy \cup {Str("x"), Num("5"), Bool("true"), Str("2024-01-15T00:00:00Z")}
FmtRows == {[k |-> v] : v \in FmtValues} \cup {[other |-> Str("z")]}
FmtTypes == {"undefined", "plain", "date", "html", "image", "bogus"}
FmtDefaults == {Undefined, Null, Str("N/A"), Num("0"), Str("")}
FmtCols == [key : {"k"}, name : {"K"}, type : FmtTypes, default : FmtDefaults]
FmtDateFormats == {Undefined, Str("YYYY/MM/DD")}

InitFmt ==
    /\ InitComponent
    /\ dateFormat \in FmtDateFormats
    /\ fmtRow \in FmtRows
    /\ fmtCol \in FmtCols
    /\ fmtOut = JsVal("pending", "")

FormatCell ==
    /\ fmtOut = JsVal("pending", "")
    /\ fmtOut' = GetValue(fmtRow, fmtCol, dateFormat)
    /\ UNCHANGED <<data, schema, dateFormat, dataWraps, schemaWraps, changed,
                   isUpdatePending, hasHiddenRows, rendered, tree, dom,
                   dataMutations, dataChangeEvents, calls, log, fmtRow, fmtCol>>

NextFmt == FormatCell

SpecFmt == InitFmt /\ [][NextFmt]_vars

(***************************************************************************)
(* Properties.                                                             *)
(***************************************************************************)
\* the state right after a render, before any further call
Settled == rendered /\ ~isUpdatePending

Has(cell, c) == c \in cell.cls

\* C1: after any sequence of k mutations made through the data value,
\* exactly k data-change notifications have been dispatched.
C1_OneEventPerMutation == dataChangeEvents = dataMutations

\* C2 (as stated): once a mutation has been notified, the next thing that
\* happens is its re-render; no external call comes in between.
C2_NoCallBeforeRender ==
    [][(isUpdatePending /\ Events(log) # {}) => log' = Append(log, "render")]_vars

\* C2 (amended): within the mutation each watcher dispatches its event and
\* then requests the update, so a notified mutation always has an update
\* pending until a render has run; the render runs later, after whatever
\* further calls were made meanwhile, and shows the value as it then is.
C2_NotifyThenRequestThenRender ==
    /\ \A i \in Events(log) : i < Len(log) /\ log[i + 1] = "requestUpdate"
    /\ Events(log) # {} => (isUpdatePending \/ log[Len(log)] = "render")
    /\ \A i \in 1..Len(log) :
          log[i] = "render" =>
              /\ i = Len(log)
              /\ ~isUpdatePending
              /\ Len(tree.rows) = (IF Len(data) = 0 THEN 1 ELSE Len(data))
              /\ tree.footer = Len(data)

C2_Witness ==
    /\ Events(log) # {}
    /\ log[Len(log)] = "render"
    /\ dataMutations >= 2

\* C3: after a render hasHiddenRows is true iff some top-level entry of
\* data is an array, and the grid has schema.length columns plus one when
\* hasHiddenRows.
C3_HiddenRowsAndColumns ==
    Settled =>
        /\ hasHiddenRows = (\E i \in 1..Len(data) : data[i].arr)
        /\ GridColumns(tree.grid) = Len(schema) + (IF hasHiddenRows THEN 1 ELSE 0)

\* a table of a simple and a grouped row, rendered after two mutations
C3_Witness ==
    /\ Settled
    /\ hasHiddenRows
    /\ Len(schema) > 0
    /\ GridColumns(tree.grid) = Len(schema) + 1
    /\ \E i, k \in 1..Len(data) : data[i].arr /\ ~data[k].arr
    /\ dataMutations >= 2

\* C4 (as stated): the header row holds schema.length header cells, in
\* schema order, whatever data is.
C4_HeaderCountIsSchemaLength ==
    Settled =>
        /\ Len(tree.headers) = Len(schema)
        /\ \A i \in 1..Len(schema) : tree.headers[i].text = schema[i].name

\* C4 (amended): the header row holds one labelled header cell per schema
\* entry, in schema order, after one empty placeholder cell when
\* hasHiddenRows: schema.length + 1 cells in a table with a grouped row.
C4_HeaderCells ==
    Settled =>
        LET lead == IF hasHiddenRows THEN 1 ELSE 0 IN
        /\ Len(tree.headers) = Len(schema) + lead
        /\ \A i \in 1..lead : tree.headers[i].placeholder
        /\ \A i \in 1..Len(schema) :
              /\ ~tree.headers[i + lead].placeholder
              /\ tree.headers[i + lead].text = schema[i].name

C4_Witness ==
    /\ Settled
    /\ hasHiddenRows
    /\ Len(schema) >= 2
    /\ Len(tree.headers) = Len(schema) + 1

\* C5: the footer shows the number of top-level entries of data, and a
\* footer that does not show data.length is eventually replaced by one
\* that does.
C5_FooterFollowsLength ==
    /\ [](Settled => tree.footer = Len(data))
    /\ (tree.footer # Len(data)) ~> (rendered /\ tree.footer = Len(data))

C5_Witness ==
    /\ Settled
    /\ dataMutations > 0
    /\ tree.footer = Len(data)
    /\ \E i \in 1..Len(data) : data[i].arr /\ Len(data[i].els) >= 2

\* C6: a missing or falsy field gives the column's default when it has one
\* and the empty string otherwise, whatever the type; a truthy field is
\* dispatched on the type, and a plain or unknown type gives the raw value.
C6_Formatter ==
    fmtOut.t # "pending" =>
        LET has == fmtCol.key \in DOMAIN fmtRow
            raw == IF has THEN fmtRow[fmtCol.key] ELSE Undefined
            falsy == ~has \/ raw \in {Undefined, Null, Num("0"), Num("NaN"), Str(""), Bool("false")}
        IN  /\ falsy =>
                fmtOut = (IF fmtCol.default \in {Undefined, Null} THEN Str("") ELSE fmtCol.default)
            /\ ~falsy =>
                /\ fmtCol.type = "date" => fmtOut.t = "date"
                /\ fmtCol.type = "html" => fmtOut = JsVal("static", raw.s)
                /\ fmtCol.type = "image" => fmtOut = JsVal("img", raw.s)
                /\ fmtCol.type \notin {"date", "html", "image"} => fmtOut = raw

C6_Witness ==
    /\ fmtOut = Str("N/A")
    /\ fmtCol.type = "date"
    /\ fmtRow = [k |-> Num("0")]

\* the cells of sub-row elements (index >= 1) of a <tr>
SubRowCells(row) == {q \in 1..Len(row.cells) : row.cells[q].el # 0}

\* C7: a click on the expander of grouped row i flips the hidden flag of
\* the sub-row cells of row i and of no other cell, and changes the expanded
\* flag of no other expander.
C7_ToggleTouchesOwnRowOnly ==
    [][\A i \in 1..Len(dom) : \A p \in 1..Len(dom[i].cells) :
          (Click(i, p) /\ dom[i].cells[p].el = 0) =>
              /\ Len(dom') = Len(dom)
              /\ \A k \in 1..Len(dom) : k # i => dom'[k] = dom[k]
              /\ Len(dom'[i].cells) = Len(dom[i].cells)
              /\ \A q \in 1..Len(dom[i].cells) :
                    /\ Has(dom'[i].cells[q], "hidden")
                          = (IF q \in SubRowCells(dom[i])
                             THEN ~Has(dom[i].cells[q], "hidden")
                             ELSE Has(dom[i].cells[q], "hidden"))
                    /\ q # p => Has(dom'[i].cells[q], "expanded")
                                    = Has(dom[i].cells[q], "expanded")
                    /\ q = p => Has(dom'[i].cells[q], "expanded")
                                    = ~Has(dom[i].cells[q], "expanded")]_vars

\* two grouped rows with sub-rows, one opened by its expander, the other not
C7_Witness ==
    \E i, k \in 1..Len(dom) :
        /\ i # k
        /\ dom[i].kind = "group" /\ dom[k].kind = "group"
        /\ SubRowCells(dom[i]) # {} /\ SubRowCells(dom[k]) # {}
        /\ Has(dom[i].cells[1], "expanded")
        /\ \A q \in SubRowCells(dom[i]) : ~Has(dom[i].cells[q], "hidden")
        /\ ~Has(dom[k].cells[1], "expanded")
        /\ \A q \in SubRowCells(dom[k]) : Has(dom[k].cells[q], "hidden")

AllCollapsed(rows) ==
    \A i \in 1..Len(rows) : \A q \in 1..Len(rows[i].cells) :
        /\ ~Has(rows[i].cells[q], "expanded")
        /\ Has(rows[i].cells[q], "subrow") => Has(rows[i].cells[q], "hidden")

\* C8 (as stated): every re-render leaves every grouped row collapsed.
C8_RenderCollapsesAll == [][PerformUpdate => AllCollapsed(dom')]_vars

\* C8 (amended): the expansion state is kept only in the rendered tree, and
\* a re-render neither stores nor resets it: a grouped row whose rendered
\* template is the one of the previous render keeps its cells exactly as
\* the clicks left them, expanded or not; only a row the re-render creates
\* (a new position, or a position that held another kind of row) starts
\* collapsed.
C8_RenderKeepsToggledRows ==
    [][PerformUpdate =>
          \A i \in 1..Len(dom') :
              /\ (i <= Len(dom) /\ dom[i].kind = "group" /\ tree'.rows[i] = tree.rows[i])
                    => dom'[i] = dom[i]
              /\ (i > Len(dom) \/ dom[i].kind # dom'[i].kind)
                    => AllCollapsed(<<dom'[i]>>)]_vars

\* a re-render triggered by a mutation has just run and a grouped row is
\* still expanded
C8_Witness ==
    /\ Events(log) # {}
    /\ log[Len(log)] = "render"
    /\ \E i \in 1..Len(dom) :
          /\ dom[i].kind = "group"
          /\ SubRowCells(dom[i]) # {}
          /\ Has(dom[i].cells[1], "expanded")
          /\ \A q \in SubRowCells(dom[i]) : ~Has(dom[i].cells[q], "hidden")

IsMultiple(n, m) == \E f \in 0..n : n = f * m

\* C9: of non-empty data, a simple row renders schema.length cells, plus
\* one when hasHiddenRows, and a grouped row of k elements renders
\* k * (schema.length + 1) cells, of which only element 0's leading cell is
\* an expander and exactly the cells of the elements >= 1 are hidden
\* sub-row cells; each row's cell count is a multiple of the column count.
C9_RowCells ==
    (Settled /\ Len(data) > 0) =>
        /\ Len(tree.rows) = Len(data)
        /\ \A i \in 1..Len(data) :
              LET cells == tree.rows[i].cells IN
              /\ IsMultiple(Len(cells), GridColumns(tree.grid))
              /\ ~data[i].arr =>
                    /\ Len(cells) = Len(schema) + (IF hasHiddenRows THEN 1 ELSE 0)
                    /\ \A q \in 1..Len(cells) : cells[q].cls = {}
              /\ data[i].arr =>
                    /\ Len(cells) = Len(data[i].els) * (Len(schema) + 1)
                    /\ \A q \in 1..Len(cells) :
                          /\ Has(cells[q], "expander") = (q = 1)
                          /\ Has(cells[q], "subrow") = (q > Len(schema) + 1)
                          /\ Has(cells[q], "hidden") = (q > Len(schema) + 1)

C9_Witness ==
    /\ Settled
    /\ Len(schema) >= 2
    /\ \E i, k \in 1..Len(data) :
          /\ data[i].arr /\ Len(data[i].els) >= 2
          /\ ~data[k].arr
          /\ Len(tree.rows[i].cells) = Len(data[i].els) * (Len(schema) + 1)
          /\ Len(tree.rows[k].cells) = Len(schema) + 1

\* C10: in every grouped row all sub-row cells share one hidden flag, the
\* expander of element 0 is marked expanded iff the sub-row cells are
\* visible, and no other cell is marked expanded.
C10_ExpanderMatchesSubRows ==
    \A i \in 1..Len(dom) :
        dom[i].kind = "group" =>
            LET row == dom[i]
                sub == SubRowCells(row)
            IN  /\ \A q, r \in sub : Has(row.cells[q], "hidden") = Has(row.cells[r], "hidden")
                /\ \A q \in sub : Has(row.cells[1], "expanded") = ~Has(row.cells[q], "hidden")
                /\ \A q \in 2..Len(row.cells) : ~Has(row.cells[q], "expanded")

====
